---- MODULE Spec2Model ----
(***************************************************************************)
(* Model of the session and stream-ordering core of the STT service        *)
(* (src/scripts/plugin2.py): JitterBuffer, ConnectionManager and the       *)
(* connection handler, receive loop and background tasks of STTService.    *)
(*                                                                         *)
(* Python values are represented as follows.                               *)
(*   Optional[T]   a sequence of length at most one: <<>> is None, <<v>>   *)
(*                 is the value v.                                         *)
(*   dict          a function; its DOMAIN is the set of keys.              *)
(*   deque         a sequence, index 1 is the left end.                    *)
(*   (seq, data)   a record [seq, data, id]; id is the number of the       *)
(*                 add_frame call that built the tuple (object identity).  *)
(***************************************************************************)
EXTENDS Integers, Sequences, FiniteSets, TLC

VARIABLES
    \* ---- JitterBuffer (plugin2.py:90-124)
    max_size,                 \* constructor argument of JitterBuffer
    maxlen,                   \* maxlen of the deque self.buffer currently refers to
    buffer,                   \* self.buffer
    expected_seq,             \* self.expected_seq
    ret,                      \* return value of the latest add_frame call
    delivered,                \* history: arguments and return value of each call so far
    released,                 \* history: the tuples popped by the calls so far
    \* ---- ConnectionManager (plugin2.py:149-229)
    max_connections,          \* self.max_connections
    active_sessions,          \* session_id -> UserSession
    connection_to_session,    \* connection_id -> session_id
    websocket_to_connection,  \* websocket -> connection_id
    uuid_count,               \* number of identifiers generated so far
    cm_result,                \* the latest ConnectionManager call and its outcome
    \* ---- STTService (plugin2.py:235-906)
    state,                    \* self.state
    ws_server,                \* self.ws_server: None or the listening server
    audio_processor_tasks,    \* session_id -> audio task
    transcription_tasks,      \* session_id -> stats task
    cancelled,                \* the tasks whose cancel() has been called
    pc,                       \* per transport: where its handle_client coroutine stands
    handshake,                \* per transport: the path the handshake took
    client_session,           \* per transport: the handler's local `session`
    sequence_number,          \* per transport: local of _handle_session_audio_stream
    transport_ok,             \* per transport: whether a send on it succeeds
    sent,                     \* per transport: the websocket.send calls made on it
    msg_count,                \* number of messages the receive loops have taken
    first_event,              \* per transport: what the handshake's recv yielded
    received,                 \* per transport: the messages its receive loop has taken
    \* ---- the background tasks of a session (plugin2.py:763-882)
    audio_pc,                 \* per transport: where its _process_session_audio task stands
    audio_buffer,             \* per transport: the task's local audio_buffer, as frames
    stats_pc,                 \* per transport: where its _session_transcription_worker stands
    taken,                    \* history: the frames the audio task took from the queue
    dispatched,               \* history: the batches handed to _transcribe_session_audio
    cleanups,                 \* history: number of _cleanup_session runs of the handler
    teardown_log,             \* history: what the handler's _cleanup_session did, in order
    late_iteration,           \* history: the audio task ran an iteration after its cancel()
    \* ---- STTService, its programmatic interface (plugin2.py:238-582, 1126-1174)
    state_change_callbacks,   \* self.state_change_callbacks
    error_callbacks,          \* self.error_callbacks
    transcription_callbacks,  \* self.transcription_callbacks
    enable_translation,       \* self.enable_translation, None while the attribute does not exist
    translation_target_lang,  \* self.translation_target_lang, likewise
    display_subtitles,        \* self.display_subtitles, likewise
    call                      \* the latest dispatch, request or stop and its outcome

jbVars == <<max_size, maxlen, buffer, expected_seq, ret, delivered, released>>
cmVars == <<max_connections, active_sessions, connection_to_session,
            websocket_to_connection, uuid_count, cm_result>>
svcVars == <<state, ws_server, audio_processor_tasks, transcription_tasks, cancelled,
             pc, handshake, client_session, sequence_number, transport_ok, sent, msg_count,
             first_event, received>>
taskVars == <<audio_pc, audio_buffer, stats_pc, taken, dispatched, cleanups, teardown_log,
              late_iteration>>
cfgVars == <<state_change_callbacks, error_callbacks, transcription_callbacks,
             enable_translation, translation_target_lang, display_subtitles>>
apiVars == <<cfgVars, call>>
vars == <<jbVars, cmVars, svcVars, taskVars, apiVars>>

----------------------------------------------------------------------------
\* Bounds of the model
MaxCap == 2          \* JitterBuffer capacities 1..MaxCap
MaxSeq == 7          \* sequence numbers 0..MaxSeq
MaxCalls == 3        \* add_frame calls per behaviour
MaxConn == 2         \* max_connections in 1..MaxConn
MaxUuid == 2         \* identifiers generated per behaviour
MaxMsgs == 3         \* messages taken by the receive loop of one connection
MaxSvcMsgs == 2      \* messages taken by all receive loops when clients compete
MaxPipeMsgs == 2     \* messages taken by all receive loops while the tasks run
MaxTakes == 3        \* frames the audio task takes from a backlogged queue
MaxCallbacks == 2    \* callbacks registered in each of the three lists

\* Program constants
DefaultMaxSize == 10
DefaultMaxConnections == 50
QueueMaxSize == 1000
BatchThreshold == 8192

Payloads == {"a", "b"}
Seqs == 0..MaxSeq
None == <<>>
Some(v) == <<v>>

----------------------------------------------------------------------------
\* collections.deque

DequeAppend_evict(d, ml, x) == IF d = <<>> THEN <<x>> ELSE Append(Tail(d), x)
\* deque.append on a deque with the given maxlen: a full bounded deque
\* discards its leftmost item, a deque of maxlen 0 keeps nothing.
DequeAppend(d, ml, x) ==
    IF ml = None THEN Append(d, x)
    ELSE IF ml[1] = 0 THEN d
    ELSE IF Len(d) >= ml[1] THEN Append(Tail(d), x)
    ELSE Append(d, x)

\* Position of x in an ascending list: after every item whose key is <= x's.
InsertByKey(s, x) ==
    LET k == Cardinality({i \in 1..Len(s) : s[i].seq <= x.seq})
    IN SubSeq(s, 1, k) \o <<x>> \o SubSeq(s, k + 1, Len(s))

RECURSIVE Sorted(_)
Sorted_unsorted(d) == d
\* sorted(d, key=lambda x: x[0]): ascending by sequence number, stable.
Sorted(d) ==
    IF d = <<>> THEN <<>>
    ELSE InsertByKey(Sorted(SubSeq(d, 1, Len(d) - 1)), d[Len(d)])

----------------------------------------------------------------------------
\* JitterBuffer

CanRelease_late(buf, exp) == buf # <<>> /\ buf[1].seq <= exp
\* self.buffer and self.buffer[0][0] == self.expected_seq
CanRelease(buf, exp) == buf # <<>> /\ buf[1].seq = exp

get_buffer_size == Len(buffer)

JitterBuffer_init(n) ==
    /\ max_size = n
    /\ maxlen = Some(n)
    /\ buffer = <<>>
    /\ expected_seq = 0
    /\ ret = None
    /\ delivered = <<>>
    /\ released = <<>>

add_frame(audio_data, seq_num) ==
    /\ Len(delivered) < MaxCalls
    /\ LET frame == [seq |-> seq_num, data |-> audio_data, id |-> Len(delivered) + 1]
           appended == DequeAppend(buffer, maxlen, frame)
           sorted == Sorted(appended)
       IN \* deque(sorted(...)) is a new deque built without maxlen
          /\ maxlen' = None
          /\ IF CanRelease(sorted, expected_seq)
             THEN /\ buffer' = Tail(sorted)
                  /\ expected_seq' = expected_seq + 1
                  /\ ret' = Some(Head(sorted).data)
                  /\ released' = Append(released, Head(sorted))
             ELSE /\ buffer' = sorted
                  /\ ret' = None
                  /\ UNCHANGED <<expected_seq, released>>
          /\ delivered' = Append(delivered,
                 [seq |-> seq_num, data |-> audio_data, ret |-> ret'])
    /\ UNCHANGED max_size
    /\ UNCHANGED cmVars
    /\ UNCHANGED svcVars
    /\ UNCHANGED taskVars
    /\ UNCHANGED apiVars

----------------------------------------------------------------------------
\* ConnectionManager

Websockets == {"w1", "w2"}
SessionIds == {"", "s1"}
ConnectionIds == {"", "c1"}

OptSessionIds == {None} \cup {Some(s) : s \in SessionIds}
OptConnectionIds == {None} \cup {Some(c) : c \in ConnectionIds}

\* Python truthiness of an Optional[str]: None and "" are falsy
Truthy(opt) == opt # None /\ opt[1] # ""

DictGet(d, k) == IF k \in DOMAIN d THEN Some(d[k]) ELSE None
DictSet(d, k, v) == [x \in DOMAIN d \cup {k} |-> IF x = k THEN v ELSE d[x]]
DictDel_keep(d, k) == d
DictDel(d, k) == [x \in DOMAIN d \ {k} |-> d[x]]
EmptyDict == [x \in {} |-> x]

\* f"session_{int(time.time())}_{str(uuid.uuid4())[:8]}" and str(uuid.uuid4()):
\* an identifier no earlier call has produced
GenSessionId(n) == "session_" \o ToString(n)
GenConnectionId(n) == "uuid_" \o ToString(n)

AtCapacity_offbyone(n, limit) == n > limit
\* len(self.active_sessions) >= self.max_connections
AtCapacity(n, limit) == n >= limit

SessionExists_unchecked(sid, sessions) == FALSE
\* session_id in self.active_sessions
SessionExists(sid, sessions) == sid \in DOMAIN sessions

ConnectionManager_init(n) ==
    /\ max_connections = n
    /\ active_sessions = EmptyDict
    /\ connection_to_session = EmptyDict
    /\ websocket_to_connection = EmptyDict
    /\ uuid_count = 0
    /\ cm_result = [op |-> "init", websocket |-> "", session_id |-> None, outcome |-> "ok"]

get_active_session_count == Cardinality(DOMAIN active_sessions)

get_session_by_websocket(websocket) ==
    LET connection_id == DictGet(websocket_to_connection, websocket)
    IN IF Truthy(connection_id)
       THEN LET session_id == DictGet(connection_to_session, connection_id[1])
            IN IF Truthy(session_id)
               THEN DictGet(active_sessions, session_id[1])
               ELSE None
       ELSE None

get_session_by_id(session_id) == DictGet(active_sessions, session_id)

create_session(websocket, session_id_arg, connection_id_arg) ==
    /\ IF AtCapacity(Cardinality(DOMAIN active_sessions), max_connections)
       THEN /\ cm_result' = [op |-> "create", websocket |-> websocket,
                             session_id |-> session_id_arg, outcome |-> "CapacityExceeded"]
            /\ UNCHANGED <<active_sessions, connection_to_session,
                           websocket_to_connection, uuid_count>>
       ELSE LET nsid == IF session_id_arg = None THEN 1 ELSE 0
                ncid == IF connection_id_arg = None THEN 1 ELSE 0
                session_id == IF session_id_arg = None
                              THEN GenSessionId(uuid_count + 1)
                              ELSE session_id_arg[1]
                connection_id == IF connection_id_arg = None
                                 THEN GenConnectionId(uuid_count + nsid + 1)
                                 ELSE connection_id_arg[1]
                session == [session_id |-> session_id,
                            connection_id |-> connection_id,
                            websocket |-> websocket]
            IN /\ uuid_count + nsid + ncid <= MaxUuid
               /\ uuid_count' = uuid_count + nsid + ncid
               /\ IF SessionExists(session_id, active_sessions)
                  THEN /\ cm_result' = [op |-> "create", websocket |-> websocket,
                                        session_id |-> Some(session_id),
                                        outcome |-> "DuplicateSession"]
                       /\ UNCHANGED <<active_sessions, connection_to_session,
                                      websocket_to_connection>>
                  ELSE /\ active_sessions' = DictSet(active_sessions, session_id, session)
                       /\ connection_to_session' =
                              DictSet(connection_to_session, connection_id, session_id)
                       /\ websocket_to_connection' =
                              DictSet(websocket_to_connection, websocket, connection_id)
                       /\ cm_result' = [op |-> "create", websocket |-> websocket,
                                        session_id |-> Some(session_id),
                                        outcome |-> "ok"]
    /\ UNCHANGED max_connections
    /\ UNCHANGED jbVars

remove_session(websocket) ==
    /\ LET connection_id == DictGet(websocket_to_connection, websocket)
           session_id == IF Truthy(connection_id)
                         THEN DictGet(connection_to_session, connection_id[1])
                         ELSE None
       IN IF ~Truthy(connection_id) \/ ~Truthy(session_id)
          THEN /\ cm_result' = [op |-> "remove", websocket |-> websocket,
                                session_id |-> None, outcome |-> "false"]
               /\ UNCHANGED <<active_sessions, connection_to_session,
                              websocket_to_connection>>
          ELSE /\ active_sessions' = DictDel(active_sessions, session_id[1])
               /\ connection_to_session' = DictDel(connection_to_session, connection_id[1])
               /\ websocket_to_connection' = DictDel(websocket_to_connection, websocket)
               /\ cm_result' = [op |-> "remove", websocket |-> websocket,
                                session_id |-> session_id, outcome |-> "true"]
    /\ UNCHANGED <<max_connections, uuid_count>>
    /\ UNCHANGED jbVars

----------------------------------------------------------------------------
\* STTService: connection handler, receive loop, teardown

AddFrameResult_hold(jb, audio_data, seq_num) ==
    [jitter_buffer |->
        [buffer |-> Sorted(DequeAppend(jb.buffer, jb.maxlen,
                       [seq |-> seq_num, data |-> audio_data, id |-> seq_num + 1])),
         maxlen |-> None, expected_seq |-> jb.expected_seq],
     ret |-> None,
     seq |-> None]
\* add_frame on the JitterBuffer object jb of a session (the same code as
\* the action add_frame, as a function of the object's fields)
AddFrameResult(jb, audio_data, seq_num) ==
    LET frame == [seq |-> seq_num, data |-> audio_data, id |-> seq_num + 1]
        sorted == Sorted(DequeAppend(jb.buffer, jb.maxlen, frame))
    IN IF CanRelease(sorted, jb.expected_seq)
       THEN [jitter_buffer |-> [buffer |-> Tail(sorted), maxlen |-> None,
                                expected_seq |-> jb.expected_seq + 1],
             ret |-> Some(Head(sorted).data),
             seq |-> Some(Head(sorted).seq)]
       ELSE [jitter_buffer |-> [buffer |-> sorted, maxlen |-> None,
                                expected_seq |-> jb.expected_seq],
             ret |-> None,
             seq |-> None]

\* queue.Queue(maxsize=1000): full() and put() of a queue that is not full.
\* An entry (timestamp, data) is a record [seq, data]: data is the number of
\* bytes, seq the sequence number the frame was received under.
QueueFull_never(q) == FALSE
QueueFull(q) == Len(q) >= QueueMaxSize
QueuePut_front(q, x) == <<x>> \o q
QueuePut(q, x) == Append(q, x)

\* The first thing the handler's `await wait_for(websocket.recv(), 30)` yields
FirstEvent(kind, type, sid, disp, tr) ==
    [kind |-> kind, type |-> type, session_id |-> sid,
     display_subtitles |-> disp, translate_to |-> tr]
InitConfigs == {<<None, None>>, <<Some(FALSE), Some("zh")>>}
InitMessages ==
    {FirstEvent("json_object", "init", sid, cfg[1], cfg[2]) :
        sid \in OptSessionIds, cfg \in InitConfigs}
FirstEvents ==
    InitMessages \cup
    {FirstEvent("json_object", "ping", None, None, None),
     FirstEvent("json_nonobject", "", None, None, None),
     FirstEvent("not_json", "", None, None, None),
     FirstEvent("timeout", "", None, None, None),
     FirstEvent("closed", "", None, None, None)}

\* The messages the receive loop can take
Message(kind, type, enabled, lang, len) ==
    [kind |-> kind, type |-> type, enabled |-> enabled, target_lang |-> lang, len |-> len]
Messages ==
    {Message("text_object", t, None, None, 0) :
        t \in {"start_display", "stop_display", "ping", "unknown"}} \cup
    {Message("text_object", "enable_translation", e[1], e[2], 0) :
        e \in {<<None, None>>, <<Some(TRUE), Some("fr")>>, <<Some(FALSE), Some("fr")>>}} \cup
    {Message("text_nonobject", "", None, None, 0),
     Message("text_not_json", "", None, None, 0)} \cup
    {Message("binary", "", None, None, n) : n \in {0, 4096}}

GetOr_default(opt, default) == default
\* dict.get(key, default) on an optional field
GetOr(opt, default) == IF opt = None THEN default ELSE opt[1]

\* the messages sent by the server; ok tells whether the send call succeeded
ErrorReply(text) == [type |-> "error", message |-> text]
InitResponse(sess) ==
    [type |-> "init_response", session_id |-> sess.session_id,
     connection_id |-> sess.connection_id, status |-> "connected"]
ControlResponse(sess, action) ==
    [type |-> "control_response", session_id |-> sess.session_id,
     action |-> action, status |-> "success"]
TranslationResponse(sess) ==
    [type |-> "control_response", session_id |-> sess.session_id,
     action |-> "enable_translation", status |-> "success",
     translation_enabled |-> sess.enable_translation]
Pong(sess) == [type |-> "pong", session_id |-> sess.session_id]
Ack(sess, seq) == [type |-> "ack", session_id |-> sess.session_id, sequence |-> seq]
SessionError(sess, text) ==
    [type |-> "error", session_id |-> sess.session_id, message |-> text]
SendCall(m, ok) == m @@ [ok |-> ok]

SessionTransport_shared(sess) == CHOOSE w \in Websockets : TRUE
\* session.websocket, the transport the session's replies are sent on
SessionTransport(sess) == sess.websocket

\* UserSession(...) as built by create_session, then configured from init
NewSession(rec, init) ==
    [session_id |-> rec.session_id,
     connection_id |-> rec.connection_id,
     websocket |-> rec.websocket,
     jitter_buffer |-> [buffer |-> <<>>, maxlen |-> Some(DefaultMaxSize), expected_seq |-> 0],
     audio_queue |-> <<>>,
     language |-> "en",
     translate_to |-> init.translate_to,
     enable_translation |-> Truthy(init.translate_to),
     display_subtitles |-> GetOr(init.display_subtitles, TRUE),
     bytes_received |-> 0,
     frames_processed |-> 0,
     jitter_buffer_size |-> 0]

\* How the handshake ends for a first event that is not an accepted init
HandshakePath_initless(ev) ==
    CASE ev.kind = "timeout" -> "timeout"
      [] ev.kind = "closed" -> "closed"
      [] ev.kind \in {"not_json", "json_nonobject"} -> "invalid"
      [] OTHER -> "init"
HandshakePath(ev) ==
    CASE ev.kind = "timeout" -> "timeout"
      [] ev.kind = "closed" -> "closed"
      [] ev.kind \in {"not_json", "json_nonobject"} -> "invalid"
      [] ev.kind = "json_object" /\ ev.type # "init" -> "not_init"
      [] OTHER -> "init"

\* What a registered callback does when it is called
Callbacks == {"returns", "raises"}

\* No request: the `request` field of a call that is not handle_request
NoRequest == [complete |-> TRUE, version |-> "", action |-> "",
              config |-> [enable_translation |-> None, target_language |-> None,
                          display_subtitles |-> None]]
NoCall == [op |-> "none", arg |-> "", invoked |-> <<>>, raised |-> None,
           status_code |-> 0, result |-> "none", request |-> NoRequest]
NoDispatch == [invoked |-> <<>>, raised |-> None]

CallbackGuarded_bare == FALSE
\* each callback is called inside `try: ... except Exception` (lines 561-564,
\* 570-573, 579-582)
CallbackGuarded == TRUE

\* `for callback in callbacks:` from the i-th callback on; invoked lists the
\* positions of the callbacks called so far
RECURSIVE CallbackLoopFrom(_, _, _)
CallbackLoopFrom(callbacks, i, invoked) ==
    IF i > Len(callbacks) THEN [invoked |-> invoked, raised |-> None]
    ELSE IF callbacks[i] = "raises" /\ ~CallbackGuarded
         THEN [invoked |-> Append(invoked, i), raised |-> Some("Exception")]
         ELSE CallbackLoopFrom(callbacks, i + 1, Append(invoked, i))

CallbackLoop(callbacks) == CallbackLoopFrom(callbacks, 1, <<>>)

Service_init ==
    /\ state = "stopped"
    /\ ws_server = None
    /\ audio_processor_tasks = EmptyDict
    /\ transcription_tasks = EmptyDict
    /\ cancelled = {}
    /\ pc = [w \in Websockets |-> "idle"]
    /\ handshake = [w \in Websockets |-> "none"]
    /\ client_session = [w \in Websockets |-> None]
    /\ sequence_number = [w \in Websockets |-> 0]
    /\ transport_ok = [w \in Websockets |-> TRUE]
    /\ sent = [w \in Websockets |-> <<>>]
    /\ msg_count = 0
    /\ first_event = [w \in Websockets |-> None]
    /\ received = [w \in Websockets |-> <<>>]
    /\ audio_pc = [w \in Websockets |-> "none"]
    /\ audio_buffer = [w \in Websockets |-> <<>>]
    /\ stats_pc = [w \in Websockets |-> "none"]
    /\ taken = [w \in Websockets |-> <<>>]
    /\ dispatched = [w \in Websockets |-> <<>>]
    /\ cleanups = [w \in Websockets |-> 0]
    /\ teardown_log = [w \in Websockets |-> <<>>]
    /\ late_iteration = {}
    /\ state_change_callbacks = <<>>
    /\ error_callbacks = <<>>
    /\ transcription_callbacks = <<>>
    /\ enable_translation = None
    /\ translation_target_lang = None
    /\ display_subtitles = None
    /\ call = NoCall

\* _change_state (lines 553-564) called from `op`, which goes on to end with
\* the exception exc (None: it returns)
ChangeStateIn(op, new_state, exc) ==
    LET loop == IF state # new_state THEN CallbackLoop(state_change_callbacks)
                ELSE NoDispatch
    IN /\ state' = new_state
       /\ call' = [NoCall EXCEPT !.op = op, !.arg = new_state,
                                 !.invoked = loop.invoked,
                                 !.raised = IF loop.raised # None THEN loop.raised ELSE exc]

\* _change_state
ChangeState(new_state) == ChangeStateIn("_change_state", new_state, None)

\* start_websocket_server up to the point where the server listens
start_websocket_server ==
    /\ ws_server = None
    /\ ChangeState("starting")
    /\ ws_server' = Some("server")
    /\ UNCHANGED <<audio_processor_tasks, transcription_tasks, cancelled, pc, handshake,
                   client_session, sequence_number, transport_ok, sent, msg_count,
                   first_event, received>>
    /\ UNCHANGED <<jbVars, cmVars, taskVars, cfgVars>>

\* a client connects: handle_client starts and waits for the first message
Connect(w) ==
    /\ ws_server = Some("server")
    /\ pc[w] = "idle"
    /\ pc' = [pc EXCEPT ![w] = "awaiting_init"]
    /\ UNCHANGED <<state, ws_server, audio_processor_tasks, transcription_tasks, cancelled,
                   handshake, client_session, sequence_number, transport_ok, sent, msg_count,
                   first_event, received>>
    /\ UNCHANGED <<jbVars, cmVars, taskVars, apiVars>>

\* the transport breaks: from now on a send on it raises ConnectionClosed
TransportFault(w) ==
    /\ pc[w] \in {"awaiting_init", "init_ack", "active"}
    /\ transport_ok[w]
    /\ transport_ok' = [transport_ok EXCEPT ![w] = FALSE]
    /\ UNCHANGED <<state, ws_server, audio_processor_tasks, transcription_tasks, cancelled,
                   pc, handshake, client_session, sequence_number, sent, msg_count,
                   first_event, received>>
    /\ UNCHANGED <<jbVars, cmVars, taskVars, apiVars>>

\* handle_client from the first recv to create_session (lines 600-621)
Handshake(w, ev) ==
    /\ pc[w] = "awaiting_init"
    /\ LET path == HandshakePath(ev)
       IN IF path = "init"
          THEN /\ create_session(w, ev.session_id, None)
               /\ IF cm_result'.outcome = "ok"
                  THEN /\ client_session' = [client_session EXCEPT ![w] =
                              Some(NewSession(active_sessions'[cm_result'.session_id[1]], ev))]
                       /\ handshake' = [handshake EXCEPT ![w] = "accepted"]
                       /\ pc' = [pc EXCEPT ![w] = "init_ack"]
                  ELSE \* except Exception: session is None, nothing is sent
                       /\ handshake' = [handshake EXCEPT ![w] = cm_result'.outcome]
                       /\ pc' = [pc EXCEPT ![w] = "closed"]
                       /\ UNCHANGED client_session
               /\ UNCHANGED sent
          ELSE /\ handshake' = [handshake EXCEPT ![w] = path]
               /\ pc' = [pc EXCEPT ![w] = "closed"]
               /\ sent' = [sent EXCEPT ![w] =
                     CASE path = "not_init" ->
                            Append(@, SendCall(ErrorReply("first message must be init"),
                                               transport_ok[w]))
                       [] path = "timeout" ->
                            Append(@, SendCall(ErrorReply("init timeout"), transport_ok[w]))
                       [] OTHER -> @]
               /\ UNCHANGED client_session
               /\ UNCHANGED cmVars
               /\ UNCHANGED jbVars
    /\ first_event' = [first_event EXCEPT ![w] = Some(ev)]
    /\ UNCHANGED <<state, ws_server, audio_processor_tasks, transcription_tasks, cancelled,
                   sequence_number, transport_ok, msg_count, received>>
    /\ UNCHANGED taskVars
    /\ UNCHANGED apiVars

\* What task.cancel() does to a task suspended at the given point. In the
\* audio task, a CancelledError raised at `await asyncio.sleep` leaves the
\* loop (`except Exception` does not catch it); raised at
\* `await self._transcribe_session_audio(...)` it passes that method's
\* `except Exception` and is caught by the bare `except:` of line 782, after
\* which the task goes on to `await asyncio.sleep(0.01)` with audio_buffer
\* not cleared. The stats task is only ever suspended in a sleep.
CancelAt(p) ==
    CASE p = "sleep" -> "done"
      [] p \in {"transcription", "translation"} -> "sleep"
      [] OTHER -> p

TeardownOrder_removefirst == <<"remove_session", "cancel_audio", "cancel_stats">>
\* the order of the statements of _cleanup_session (lines 888-901)
TeardownOrder == <<"cancel_audio", "cancel_stats", "remove_session">>

\* _cleanup_session (lines 884-906): cancel and forget the tasks filed under
\* the session_id, then remove_session. The CancelledError reaches a task
\* the next time the task is resumed and nothing the task reads changes
\* before it reaches its next await, so its effect is taken here.
CleanupSession(w) ==
    LET sid == client_session[w][1].session_id
        audio == IF sid \in DOMAIN audio_processor_tasks
                    /\ audio_pc[audio_processor_tasks[sid]] # "done"
                 THEN {audio_processor_tasks[sid]} ELSE {}
        stats == IF sid \in DOMAIN transcription_tasks
                    /\ stats_pc[transcription_tasks[sid]] # "done"
                 THEN {transcription_tasks[sid]} ELSE {}
    IN /\ cancelled' = cancelled \cup {<<"audio", t>> : t \in audio}
                                  \cup {<<"stats", t>> : t \in stats}
       /\ audio_pc' = [t \in Websockets |->
                          IF t \in audio THEN CancelAt(audio_pc[t]) ELSE audio_pc[t]]
       /\ stats_pc' = [t \in Websockets |->
                          IF t \in stats THEN CancelAt(stats_pc[t]) ELSE stats_pc[t]]
       /\ audio_processor_tasks' = DictDel(audio_processor_tasks, sid)
       /\ transcription_tasks' = DictDel(transcription_tasks, sid)
       /\ remove_session(w)
       /\ cleanups' = [cleanups EXCEPT ![w] = @ + 1]
       /\ teardown_log' = [teardown_log EXCEPT ![w] = @ \o
              SelectSeq(TeardownOrder,
                        LAMBDA e : \/ e = "remove_session"
                                   \/ e = "cancel_audio" /\ audio # {}
                                   \/ e = "cancel_stats" /\ stats # {})]

ShouldCleanup_never(sess) == FALSE
\* `if session:` of the finally block (line 658); a UserSession is truthy
ShouldCleanup(sess) == sess # None

\* the finally block of handle_client (lines 656-659)
Finally(w) ==
    IF ShouldCleanup(client_session[w])
    THEN CleanupSession(w)
    ELSE /\ UNCHANGED <<cancelled, audio_pc, stats_pc, audio_processor_tasks,
                        transcription_tasks, cleanups, teardown_log>>
         /\ UNCHANGED <<cmVars, jbVars>>

\* the send of init_response and what follows it (lines 623-642)
SendInitResponse(w) ==
    /\ pc[w] = "init_ack"
    /\ sent' = [sent EXCEPT ![w] =
                   Append(@, SendCall(InitResponse(client_session[w][1]), transport_ok[w]))]
    /\ IF transport_ok[w]
       THEN /\ ChangeState("running")
            /\ audio_processor_tasks' =
                  DictSet(audio_processor_tasks, client_session[w][1].session_id, w)
            /\ transcription_tasks' =
                  DictSet(transcription_tasks, client_session[w][1].session_id, w)
            /\ sequence_number' = [sequence_number EXCEPT ![w] = 0]
            /\ pc' = [pc EXCEPT ![w] = "active"]
            /\ audio_pc' = [audio_pc EXCEPT ![w] = "sleep"]
            /\ stats_pc' = [stats_pc EXCEPT ![w] = "sleep"]
            /\ UNCHANGED <<cancelled, cleanups, teardown_log>>
            /\ UNCHANGED <<cmVars, jbVars>>
       ELSE \* ConnectionClosed, then finally
            /\ Finally(w)
            /\ pc' = [pc EXCEPT ![w] = "closed"]
            /\ UNCHANGED <<state, sequence_number, call>>
    /\ UNCHANGED <<ws_server, handshake, client_session, transport_ok, msg_count,
                   first_event, received>>
    /\ UNCHANGED <<audio_buffer, taken, dispatched, late_iteration>>
    /\ UNCHANGED cfgVars

DisplayValue_always(msg_type) == TRUE
\* the value start_display / stop_display assigns to display_subtitles
DisplayValue(msg_type) == msg_type = "start_display"

ControlEffect_pong(sess, m) ==
    CASE m.type = "start_display" ->
            LET s1 == [sess EXCEPT !.display_subtitles = DisplayValue(m.type)]
            IN [session |-> s1, reply |-> Some(ControlResponse(s1, "start_display"))]
      [] m.type = "stop_display" ->
            LET s1 == [sess EXCEPT !.display_subtitles = DisplayValue(m.type)]
            IN [session |-> s1, reply |-> Some(ControlResponse(s1, "stop_display"))]
      [] m.type = "enable_translation" ->
            LET s1 == [sess EXCEPT !.enable_translation = GetOr(m.enabled, FALSE),
                                   !.translate_to = Some(GetOr(m.target_lang, "zh"))]
            IN [session |-> s1, reply |-> Some(TranslationResponse(s1))]
      [] OTHER -> [session |-> sess, reply |-> Some(Pong(sess))]
\* _handle_session_control_message: the session after the message and the
\* reply, if any
ControlEffect(sess, m) ==
    CASE m.type = "start_display" ->
            LET s1 == [sess EXCEPT !.display_subtitles = DisplayValue(m.type)]
            IN [session |-> s1, reply |-> Some(ControlResponse(s1, "start_display"))]
      [] m.type = "stop_display" ->
            LET s1 == [sess EXCEPT !.display_subtitles = DisplayValue(m.type)]
            IN [session |-> s1, reply |-> Some(ControlResponse(s1, "stop_display"))]
      [] m.type = "enable_translation" ->
            LET s1 == [sess EXCEPT !.enable_translation = GetOr(m.enabled, FALSE),
                                   !.translate_to = Some(GetOr(m.target_lang, "zh"))]
            IN [session |-> s1, reply |-> Some(TranslationResponse(s1))]
      [] m.type = "ping" -> [session |-> sess, reply |-> Some(Pong(sess))]
      [] OTHER -> [session |-> sess, reply |-> None]

BytesTruthy_present(opt) == opt # None
\* `if buffered_data:` (line 689): None and b"" are falsy
BytesTruthy(opt) == opt # None /\ opt[1] # 0

\* the binary branch of the receive loop (lines 680-696)
AudioEffect(sess, seqno, m) ==
    LET r == AddFrameResult(sess.jitter_buffer, m.len, seqno)
        queued == BytesTruthy(r.ret) /\ ~QueueFull(sess.audio_queue)
    IN [sess EXCEPT !.bytes_received = @ + m.len,
                    !.frames_processed = @ + 1,
                    !.jitter_buffer = r.jitter_buffer,
                    !.audio_queue =
                        IF queued THEN QueuePut(@, [seq |-> r.seq[1], data |-> r.ret[1]])
                        ELSE @]

AckSequence_next(seqno) == seqno + 1
\* "sequence": sequence_number - 1, read after the increment
AckSequence(seqno) == (seqno + 1) - 1

\* one iteration of `async for message in session.websocket` (lines 674-708):
\* the new session, the new sequence number and the send calls it makes
HandleMessage(sess, seqno, m, ok) ==
    LET fail == SendCall(SessionError(sess, "stream error"), ok)
    IN CASE m.kind = "text_object" ->
               LET e == ControlEffect(sess, m)
               IN [session |-> e.session, sequence_number |-> seqno,
                   out |-> IF e.reply = None THEN <<>>
                           ELSE IF ok THEN <<SendCall(e.reply[1], ok)>>
                           ELSE <<SendCall(e.reply[1], ok), fail>>]
         [] m.kind \in {"text_nonobject", "text_not_json"} ->
               [session |-> sess, sequence_number |-> seqno, out |-> <<fail>>]
         [] OTHER ->
               LET s1 == AudioEffect(sess, seqno, m)
                   ack == SendCall(Ack(s1, AckSequence(seqno)), ok)
               IN [session |-> s1, sequence_number |-> seqno + 1,
                   out |-> IF ok THEN <<ack>> ELSE <<ack, fail>>]

Receive(w, m) ==
    /\ pc[w] = "active"
    /\ msg_count < MaxMsgs
    /\ msg_count' = msg_count + 1
    /\ received' = [received EXCEPT ![w] = Append(@, m)]
    /\ LET to == SessionTransport(client_session[w][1])
           h == HandleMessage(client_session[w][1], sequence_number[w], m, transport_ok[to])
       IN /\ client_session' = [client_session EXCEPT ![w] = Some(h.session)]
          /\ sequence_number' = [sequence_number EXCEPT ![w] = h.sequence_number]
          /\ sent' = [sent EXCEPT ![to] = @ \o h.out]
    /\ UNCHANGED <<state, ws_server, audio_processor_tasks, transcription_tasks, cancelled,
                   pc, handshake, transport_ok, first_event>>
    /\ UNCHANGED <<jbVars, cmVars, taskVars, apiVars>>

\* the receive loop ends (the client closed or the transport failed) and the
\* handler's finally block runs
Disconnect(w) ==
    /\ pc[w] = "active"
    /\ Finally(w)
    /\ pc' = [pc EXCEPT ![w] = "closed"]
    /\ UNCHANGED <<state, ws_server, handshake, client_session, sequence_number,
                   transport_ok, sent, msg_count, first_event, received>>
    /\ UNCHANGED <<audio_buffer, taken, dispatched, late_iteration>>
    /\ UNCHANGED apiVars

----------------------------------------------------------------------------
\* STTService: the background tasks of a session

RECURSIVE Bytes(_)
\* len(audio_buffer) when the buffer holds the given frames
Bytes(frames) == IF frames = <<>> THEN 0 ELSE frames[1].data + Bytes(Tail(frames))

\* the transcription message of lines 866-874
Transcription(sess, translating) ==
    [type |-> "transcription", session_id |-> sess.session_id,
     original_text |-> IF translating THEN None ELSE Some("text"),
     translated_text |-> IF translating THEN Some("text") ELSE None,
     language |-> IF translating THEN sess.translate_to ELSE Some(sess.language)]

ShouldPush_always(sess) == TRUE
\* `if session.display_subtitles:` (line 865), read when the result is back
ShouldPush(sess) == sess.display_subtitles

TranscribeOut_silent(sess, translating, outcome, ok) == <<>>
\* the send calls _transcribe_session_audio makes once the collaborator call
\* is over (lines 853-882): outcome is "text", "empty" (no text) or "fail"
TranscribeOut(sess, translating, outcome, ok) ==
    LET fail == SendCall(SessionError(sess, "transcription failed"), ok)
        push == SendCall(Transcription(sess, translating), ok)
    IN CASE outcome = "fail" -> <<fail>>
         [] outcome = "text" /\ ShouldPush(sess) ->
               IF ok THEN <<push>> ELSE <<push, fail>>
         [] OTHER -> <<>>

Outcomes == {"text", "empty", "fail"}

\* _process_session_audio from a wake-up to its next await (lines 767-786)
AudioStep(w) ==
    /\ audio_pc[w] = "sleep"
    /\ LET sess == client_session[w][1]
       IN IF sess.session_id \notin DOMAIN active_sessions
          THEN /\ audio_pc' = [audio_pc EXCEPT ![w] = "done"]
               /\ UNCHANGED <<client_session, audio_buffer, taken, dispatched,
                              late_iteration>>
          ELSE /\ late_iteration' =
                     late_iteration \cup ({<<"audio", w>>} \cap cancelled)
               /\ IF sess.audio_queue = <<>>
                  THEN \* get(timeout=0.1) raises Empty
                       UNCHANGED <<client_session, audio_pc, audio_buffer, taken,
                                   dispatched>>
                  ELSE LET entry == Head(sess.audio_queue)
                           buf == IF entry.data # 0
                                  THEN Append(audio_buffer[w], entry)
                                  ELSE audio_buffer[w]
                           flush == entry.data # 0 /\ Bytes(buf) >= BatchThreshold
                       IN /\ client_session' = [client_session EXCEPT ![w] =
                                 Some([sess EXCEPT !.audio_queue = Tail(@)])]
                          /\ taken' = [taken EXCEPT ![w] = Append(@, entry)]
                          /\ audio_buffer' = [audio_buffer EXCEPT ![w] = buf]
                          /\ IF flush
                             THEN /\ audio_pc' = [audio_pc EXCEPT ![w] =
                                        IF sess.enable_translation /\ Truthy(sess.translate_to)
                                        THEN "translation" ELSE "transcription"]
                                  /\ dispatched' = [dispatched EXCEPT ![w] =
                                        Append(@, [batch |-> buf, outcome |-> "pending",
                                                   display |-> sess.display_subtitles])]
                             ELSE UNCHANGED <<audio_pc, dispatched>>
    /\ UNCHANGED <<state, ws_server, audio_processor_tasks, transcription_tasks, cancelled,
                   pc, handshake, sequence_number, transport_ok, sent, msg_count,
                   first_event, received>>
    /\ UNCHANGED <<stats_pc, cleanups, teardown_log>>
    /\ UNCHANGED <<jbVars, cmVars>>
    /\ UNCHANGED apiVars

\* the collaborator call returns or raises: the rest of
\* _transcribe_session_audio, then audio_buffer.clear() (line 780)
TranscribeDone(w, outcome) ==
    /\ audio_pc[w] \in {"transcription", "translation"}
    /\ LET to == SessionTransport(client_session[w][1])
       IN sent' = [sent EXCEPT ![to] =
                      @ \o TranscribeOut(client_session[w][1], audio_pc[w] = "translation",
                                         outcome, transport_ok[to])]
    /\ audio_buffer' = [audio_buffer EXCEPT ![w] = <<>>]
    /\ audio_pc' = [audio_pc EXCEPT ![w] = "sleep"]
    /\ dispatched' = [dispatched EXCEPT ![w][Len(dispatched[w])].outcome = outcome]
    /\ UNCHANGED <<state, ws_server, audio_processor_tasks, transcription_tasks, cancelled,
                   pc, handshake, client_session, sequence_number, transport_ok, msg_count,
                   first_event, received>>
    /\ UNCHANGED <<stats_pc, taken, cleanups, teardown_log, late_iteration>>
    /\ UNCHANGED <<jbVars, cmVars>>
    /\ UNCHANGED apiVars

\* _session_transcription_worker from a wake-up to its next sleep (794-799)
StatsStep(w) ==
    /\ stats_pc[w] = "sleep"
    /\ LET sess == client_session[w][1]
       IN IF sess.session_id \notin DOMAIN active_sessions
          THEN /\ stats_pc' = [stats_pc EXCEPT ![w] = "done"]
               /\ UNCHANGED <<client_session, late_iteration>>
          ELSE /\ client_session' = [client_session EXCEPT ![w] =
                      Some([sess EXCEPT !.jitter_buffer_size = Len(sess.jitter_buffer.buffer)])]
               /\ late_iteration' =
                     late_iteration \cup ({<<"stats", w>>} \cap cancelled)
               /\ UNCHANGED stats_pc
    /\ UNCHANGED <<state, ws_server, audio_processor_tasks, transcription_tasks, cancelled,
                   pc, handshake, sequence_number, transport_ok, sent, msg_count,
                   first_event, received>>
    /\ UNCHANGED <<audio_pc, audio_buffer, taken, dispatched, cleanups, teardown_log>>
    /\ UNCHANGED <<jbVars, cmVars>>
    /\ UNCHANGED apiVars

----------------------------------------------------------------------------
\* STTService: the programmatic interface (lines 238-582 and 1126-1174)

\* the attributes STTService.__init__ assigns (lines 258-281); no other
\* statement of the class assigns stats, audio_processor_task,
\* transcription_task or websocket
InitAttributes ==
    {"client", "version", "connection_manager", "state", "audio_config", "ws_server",
     "transcription_callbacks", "error_callbacks", "state_change_callbacks",
     "audio_processor_tasks", "transcription_tasks"}

\* self.version
Version == "1.0.0"

\* reading self.<name> succeeds; otherwise it raises AttributeError.  attrs
\* holds the attributes that are assigned after construction, if at all
HasAttrIn(attrs, name) ==
    \/ name \in InitAttributes
    \/ name \in DOMAIN attrs /\ attrs[name] # None

Attrs == [enable_translation |-> enable_translation,
          translation_target_lang |-> translation_target_lang,
          display_subtitles |-> display_subtitles]

HasAttr(name) == HasAttrIn(Attrs, name)

\* the `config` of a start_transcription intent: each key present or not
NoConfig == [enable_translation |-> None, target_language |-> None,
             display_subtitles |-> None]
Configs == [enable_translation : {None, Some(TRUE)},
            target_language : {None, Some("zh")},
            display_subtitles : {None, Some(TRUE), Some(FALSE)}]

\* request_data: whether the five required fields are all there, its
\* version, its intent's action and config
RequestActions == {"get_status", "start_transcription", "delete_session"}
Requests ==
    {r \in [complete : BOOLEAN, version : {Version, "2.0.0"},
            action : RequestActions, config : Configs] :
        r.action # "start_transcription" => r.config = NoConfig}

\* _validate_request (lines 316-328)
ValidateRequest(request) ==
    IF ~request.complete THEN "ValueError"
    ELSE IF request.version # Version THEN "ValueError"
    ELSE "ok"

\* _apply_config (lines 419-437) on the attributes attrs
ApplyConfig(attrs, config) ==
    [enable_translation |->
        IF config.enable_translation # None THEN config.enable_translation
        ELSE attrs.enable_translation,
     translation_target_lang |->
        IF config.target_language # None THEN config.target_language
        ELSE attrs.translation_target_lang,
     display_subtitles |->
        IF config.display_subtitles # None THEN config.display_subtitles
        ELSE attrs.display_subtitles]

\* the attributes read while the result is built, in the order of the reads
ResultReads(action) ==
    IF action = "start_transcription"
    THEN <<"state", "audio_config", "enable_translation", "translation_target_lang">>
    ELSE <<"state", "stats", "enable_translation", "display_subtitles">>

\* _process_intent (lines 330-385): how it ends and the attributes it leaves
ProcessIntent(attrs, request) ==
    LET applied == IF request.action = "start_transcription"
                   THEN ApplyConfig(attrs, request.config) ELSE attrs
        reads == ResultReads(request.action)
    IN [attrs |-> applied,
        outcome |->
           IF request.action \notin {"start_transcription", "get_status"}
           THEN "ValueError"
           ELSE IF \E i \in 1..Len(reads) : ~HasAttrIn(applied, reads[i])
                THEN "AttributeError"
                ELSE "ok"]

\* handle_request (lines 283-314)
handle_request(request) ==
    LET valid == ValidateRequest(request)
        done == IF valid = "ok" THEN ProcessIntent(Attrs, request)
                ELSE [attrs |-> Attrs, outcome |-> valid]
        status == CASE done.outcome = "ok" -> 200
                    [] done.outcome = "ValueError" -> 400
                    [] OTHER -> 500
    IN /\ enable_translation' = done.attrs.enable_translation
       /\ translation_target_lang' = done.attrs.translation_target_lang
       /\ display_subtitles' = done.attrs.display_subtitles
       /\ call' = [NoCall EXCEPT !.op = "handle_request", !.request = request,
                                 !.status_code = status,
                                 !.result = IF status = 200 THEN "status" ELSE "empty"]
       /\ UNCHANGED <<state_change_callbacks, error_callbacks, transcription_callbacks>>
       /\ UNCHANGED <<jbVars, cmVars, svcVars, taskVars>>

\* add_state_change_callback (lines 549-551)
add_state_change_callback(callback) ==
    /\ Len(state_change_callbacks) < MaxCallbacks
    /\ state_change_callbacks' = Append(state_change_callbacks, callback)
    /\ UNCHANGED <<error_callbacks, transcription_callbacks, enable_translation,
                   translation_target_lang, display_subtitles, call>>
    /\ UNCHANGED <<jbVars, cmVars, svcVars, taskVars>>

\* add_error_callback (lines 545-547)
add_error_callback(callback) ==
    /\ Len(error_callbacks) < MaxCallbacks
    /\ error_callbacks' = Append(error_callbacks, callback)
    /\ UNCHANGED <<state_change_callbacks, transcription_callbacks, enable_translation,
                   translation_target_lang, display_subtitles, call>>
    /\ UNCHANGED <<jbVars, cmVars, svcVars, taskVars>>

\* add_transcription_callback (lines 541-543)
add_transcription_callback(callback) ==
    /\ Len(transcription_callbacks) < MaxCallbacks
    /\ transcription_callbacks' = Append(transcription_callbacks, callback)
    /\ UNCHANGED <<state_change_callbacks, error_callbacks, enable_translation,
                   translation_target_lang, display_subtitles, call>>
    /\ UNCHANGED <<jbVars, cmVars, svcVars, taskVars>>

\* _trigger_error (lines 566-573), whoever calls it
trigger_error ==
    LET loop == CallbackLoop(error_callbacks)
    IN /\ call' = [NoCall EXCEPT !.op = "_trigger_error", !.invoked = loop.invoked,
                                 !.raised = loop.raised]
       /\ UNCHANGED cfgVars
       /\ UNCHANGED <<jbVars, cmVars, svcVars, taskVars>>

\* _trigger_transcription (lines 575-582), whoever calls it
trigger_transcription ==
    LET loop == IF ~HasAttr("display_subtitles")
                THEN [invoked |-> <<>>, raised |-> Some("AttributeError")]
                ELSE IF display_subtitles[1]
                     THEN CallbackLoop(transcription_callbacks)
                     ELSE NoDispatch
    IN /\ call' = [NoCall EXCEPT !.op = "_trigger_transcription",
                                 !.invoked = loop.invoked, !.raised = loop.raised]
       /\ UNCHANGED cfgVars
       /\ UNCHANGED <<jbVars, cmVars, svcVars, taskVars>>

\* start_subtitle_display (lines 1126-1129)
start_subtitle_display ==
    /\ display_subtitles' = Some(TRUE)
    /\ UNCHANGED <<state_change_callbacks, error_callbacks, transcription_callbacks,
                   enable_translation, translation_target_lang, call>>
    /\ UNCHANGED <<jbVars, cmVars, svcVars, taskVars>>

\* stop_subtitle_display (lines 1131-1134)
stop_subtitle_display ==
    /\ display_subtitles' = Some(FALSE)
    /\ UNCHANGED <<state_change_callbacks, error_callbacks, transcription_callbacks,
                   enable_translation, translation_target_lang, call>>
    /\ UNCHANGED <<jbVars, cmVars, svcVars, taskVars>>

\* enable_translation_feature with its default target_lang (lines 1136-1140)
enable_translation_feature ==
    /\ enable_translation' = Some(TRUE)
    /\ translation_target_lang' = Some("zh")
    /\ UNCHANGED <<state_change_callbacks, error_callbacks, transcription_callbacks,
                   display_subtitles, call>>
    /\ UNCHANGED <<jbVars, cmVars, svcVars, taskVars>>

\* disable_translation_feature (lines 1142-1145)
disable_translation_feature ==
    /\ enable_translation' = Some(FALSE)
    /\ UNCHANGED <<state_change_callbacks, error_callbacks, transcription_callbacks,
                   translation_target_lang, display_subtitles, call>>
    /\ UNCHANGED <<jbVars, cmVars, svcVars, taskVars>>

\* the attributes stop tests, in the order of its `if` statements
StopReads == <<"audio_processor_task", "transcription_task", "ws_server", "websocket">>

\* stop (lines 1155-1174): it runs up to the first attribute that does not
\* exist; the server is closed when the test of self.ws_server is reached
stop ==
    LET missing == {i \in 1..Len(StopReads) : ~HasAttr(StopReads[i])}
        reached(i) == \A j \in missing : i <= j
    IN /\ ChangeStateIn("stop", "stopped",
                        IF missing = {} THEN None ELSE Some("AttributeError"))
       /\ ws_server' = IF reached(3) /\ ws_server # None THEN Some("closed")
                       ELSE ws_server
       /\ UNCHANGED <<audio_processor_tasks, transcription_tasks, cancelled, pc, handshake,
                      client_session, sequence_number, transport_ok, sent, msg_count,
                      first_event, received>>
       /\ UNCHANGED <<jbVars, cmVars, taskVars, cfgVars>>

----------------------------------------------------------------------------
\* Specifications

\* A JitterBuffer of any positive capacity (the service builds it with the
\* default, 10) fed by any caller
InitJB ==
    /\ \E n \in 1..MaxCap : JitterBuffer_init(n)
    /\ ConnectionManager_init(DefaultMaxConnections)
    /\ Service_init

NextJB == \E audio_data \in Payloads, seq_num \in Seqs : add_frame(audio_data, seq_num)

SpecJB == InitJB /\ [][NextJB]_vars

\* A ConnectionManager called by any number of connection handlers; the
\* handlers run on one event loop and neither method awaits, so each call
\* is one step.
InitCM ==
    /\ JitterBuffer_init(DefaultMaxSize)
    /\ \E n \in 1..MaxConn : ConnectionManager_init(n)
    /\ Service_init

NextCM ==
    \/ \E websocket \in Websockets, sid \in OptSessionIds, cid \in OptConnectionIds :
          create_session(websocket, sid, cid) /\ UNCHANGED <<svcVars, taskVars, apiVars>>
    \/ \E websocket \in Websockets : remove_session(websocket) /\ UNCHANGED <<svcVars, taskVars, apiVars>>

SpecCM == InitCM /\ [][NextCM]_vars

\* The service with competing clients: they connect, shake hands, send a
\* few messages and leave, in any interleaving
SvcMessages ==
    {Message("binary", "", None, None, 4096),
     Message("text_object", "stop_display", None, None, 0)}

InitSvc ==
    /\ JitterBuffer_init(DefaultMaxSize)
    /\ \E n \in 1..Cardinality(Websockets) : ConnectionManager_init(n)
    /\ Service_init

NextSvc ==
    \/ start_websocket_server
    \/ \E w \in Websockets : Connect(w)
    \/ \E w \in Websockets : TransportFault(w)
    \/ \E w \in Websockets, ev \in FirstEvents : Handshake(w, ev)
    \/ \E w \in Websockets : SendInitResponse(w)
    \/ \E w \in Websockets, m \in SvcMessages :
          msg_count < MaxSvcMsgs /\ Receive(w, m)
    \/ \E w \in Websockets : Disconnect(w)

SpecSvc == InitSvc /\ [][NextSvc]_vars

\* The service with one client, which may send any message; what the
\* receive loop does is the same for every session_id, so the client's init
\* names one
TheClient == "w1"
LoopFirstEvents == {ev \in FirstEvents : ev.type = "init" => ev.session_id = Some("s1")}

InitLoop ==
    /\ JitterBuffer_init(DefaultMaxSize)
    /\ ConnectionManager_init(DefaultMaxConnections)
    /\ Service_init

NextLoop ==
    \/ start_websocket_server
    \/ Connect(TheClient)
    \/ TransportFault(TheClient)
    \/ \E ev \in LoopFirstEvents : Handshake(TheClient, ev)
    \/ SendInitResponse(TheClient)
    \/ \E m \in Messages : Receive(TheClient, m)
    \/ Disconnect(TheClient)

SpecLoop == InitLoop /\ [][NextLoop]_vars

\* The service with its background tasks: clients that name the same or
\* different session_ids connect, send audio and display toggles and
\* leave, while the audio and stats tasks run and the transcription
\* collaborator answers, in any interleaving.  The clients are
\* interchangeable, so the second session_id is named by one of them only.
PipeInits ==
    {FirstEvent("json_object", "init", Some("s1"), cfg[1], cfg[2]) : cfg \in InitConfigs}
    \cup {FirstEvent("json_object", "init", Some("s2"), None, None)}
PipeMessages ==
    {Message("binary", "", None, None, n) : n \in {4096, 8192}} \cup
    {Message("text_object", t, None, None, 0) : t \in {"start_display", "stop_display"}}

InitPipe ==
    /\ JitterBuffer_init(DefaultMaxSize)
    /\ ConnectionManager_init(DefaultMaxConnections)
    /\ Service_init

NextPipe ==
    \/ start_websocket_server
    \/ \E w \in Websockets : Connect(w)
    \/ \E w \in Websockets, ev \in PipeInits :
          (ev.session_id = Some("s2") => w # TheClient) /\ Handshake(w, ev)
    \/ \E w \in Websockets : SendInitResponse(w)
    \/ \E w \in Websockets, m \in PipeMessages :
          msg_count < MaxPipeMsgs /\ Receive(w, m)
    \/ \E w \in Websockets : Disconnect(w)
    \/ \E w \in Websockets : AudioStep(w)
    \/ \E w \in Websockets, outcome \in Outcomes : TranscribeDone(w, outcome)
    \/ \E w \in Websockets : StatsStep(w)

SpecPipe == InitPipe /\ [][NextPipe]_vars

\* One session whose audio queue has run up a backlog of frames of 4096
\* bytes, numbered 0..k-1 (the receive loop has been faster than the audio
\* task): the client keeps sending and the audio task takes up to MaxTakes
\* frames. The history variables record what happens from this state on.
BacklogFrame(i) == [seq |-> i - 1, data |-> 4096]
Backlogs == {QueueMaxSize - 1, QueueMaxSize}
BacklogInit == FirstEvent("json_object", "init", Some("s1"), None, None)
BacklogSession(k) ==
    [NewSession([session_id |-> "s1", connection_id |-> GenConnectionId(1),
                 websocket |-> TheClient], BacklogInit)
        EXCEPT !.jitter_buffer = [buffer |-> <<>>, maxlen |-> None, expected_seq |-> k],
               !.audio_queue = [i \in 1..k |-> BacklogFrame(i)],
               !.bytes_received = k * BacklogFrame(1).data,
               !.frames_processed = k]
QueueMessages ==
    {Message("binary", "", None, None, n) : n \in {0, BacklogFrame(1).data}}

InitQueue ==
    /\ JitterBuffer_init(DefaultMaxSize)
    /\ max_connections = DefaultMaxConnections
    /\ active_sessions = DictSet(EmptyDict, "s1",
           [session_id |-> "s1", connection_id |-> GenConnectionId(1),
            websocket |-> TheClient])
    /\ connection_to_session = DictSet(EmptyDict, GenConnectionId(1), "s1")
    /\ websocket_to_connection = DictSet(EmptyDict, TheClient, GenConnectionId(1))
    /\ uuid_count = 1
    /\ cm_result = [op |-> "create", websocket |-> TheClient,
                    session_id |-> Some("s1"), outcome |-> "ok"]
    /\ state = "running"
    /\ ws_server = Some("server")
    /\ audio_processor_tasks = DictSet(EmptyDict, "s1", TheClient)
    /\ transcription_tasks = DictSet(EmptyDict, "s1", TheClient)
    /\ cancelled = {}
    /\ pc = [w \in Websockets |-> IF w = TheClient THEN "active" ELSE "idle"]
    /\ handshake = [w \in Websockets |-> IF w = TheClient THEN "accepted" ELSE "none"]
    /\ \E k \in Backlogs :
          /\ client_session = [w \in Websockets |->
                IF w = TheClient THEN Some(BacklogSession(k)) ELSE None]
          /\ sequence_number = [w \in Websockets |-> IF w = TheClient THEN k ELSE 0]
    /\ transport_ok = [w \in Websockets |-> TRUE]
    /\ sent = [w \in Websockets |-> <<>>]
    /\ msg_count = 0
    /\ first_event = [w \in Websockets |-> IF w = TheClient THEN Some(BacklogInit) ELSE None]
    /\ received = [w \in Websockets |-> <<>>]
    /\ audio_pc = [w \in Websockets |-> IF w = TheClient THEN "sleep" ELSE "none"]
    /\ audio_buffer = [w \in Websockets |-> <<>>]
    /\ stats_pc = [w \in Websockets |-> IF w = TheClient THEN "sleep" ELSE "none"]
    /\ taken = [w \in Websockets |-> <<>>]
    /\ dispatched = [w \in Websockets |-> <<>>]
    /\ cleanups = [w \in Websockets |-> 0]
    /\ teardown_log = [w \in Websockets |-> <<>>]
    /\ late_iteration = {}
    /\ state_change_callbacks = <<>>
    /\ error_callbacks = <<>>
    /\ transcription_callbacks = <<>>
    /\ enable_translation = None
    /\ translation_target_lang = None
    /\ display_subtitles = None
    /\ call = [NoCall EXCEPT !.op = "_change_state", !.arg = "running"]

NextQueue ==
    \/ \E m \in QueueMessages : Receive(TheClient, m)
    \/ Len(taken[TheClient]) < MaxTakes /\ AudioStep(TheClient)
    \/ \E outcome \in Outcomes : TranscribeDone(TheClient, outcome)
    \/ TransportFault(TheClient)
    \/ Disconnect(TheClient)

SpecQueue == InitQueue /\ [][NextQueue]_vars

\* The callback lists, filled by the embedding application with callbacks
\* that return or raise, while the service starts, reports errors and
\* transcriptions and stops
InitCallbacks ==
    /\ JitterBuffer_init(DefaultMaxSize)
    /\ ConnectionManager_init(DefaultMaxConnections)
    /\ Service_init

NextCallbacks ==
    \/ \E callback \in Callbacks : add_state_change_callback(callback)
    \/ \E callback \in Callbacks : add_error_callback(callback)
    \/ \E callback \in Callbacks : add_transcription_callback(callback)
    \/ start_subtitle_display
    \/ stop_subtitle_display
    \/ trigger_error
    \/ trigger_transcription
    \/ start_websocket_server
    \/ stop

SpecCallbacks == InitCallbacks /\ [][NextCallbacks]_vars

\* The embedding application calls handle_request, the feature switches
\* and stop at any time: before the server starts, while it listens and
\* while it serves a client
ApiInits == {FirstEvent("json_object", "init", Some("s1"), None, None)}

InitApi ==
    /\ JitterBuffer_init(DefaultMaxSize)
    /\ ConnectionManager_init(DefaultMaxConnections)
    /\ Service_init

NextApi ==
    \/ \E request \in Requests : handle_request(request)
    \/ start_subtitle_display
    \/ stop_subtitle_display
    \/ enable_translation_feature
    \/ disable_translation_feature
    \/ start_websocket_server
    \/ Connect(TheClient)
    \/ \E ev \in ApiInits : Handshake(TheClient, ev)
    \/ SendInitResponse(TheClient)
    \/ Disconnect(TheClient)
    \/ stop

SpecApi == InitApi /\ [][NextApi]_vars


----------------------------------------------------------------------------
\* Properties of JitterBuffer (checked under SpecJB)

Range(s) == {s[i] : i \in 1..Len(s)}
SeqsOf(s) == [i \in 1..Len(s) |-> s[i].seq]
\* the tuple built by the call that has just been made
NewFrame == [seq |-> delivered'[Len(delivered')].seq,
             data |-> delivered'[Len(delivered')].data,
             id |-> Len(delivered')]
IsAddFrameStep == Len(delivered') = Len(delivered) + 1

\* C1: the frames returned by add_frame carry the sequence numbers 0,1,2,...
\* in that order; a returned frame's sequence number is expected_seq as it
\* was before the call, a release advances expected_seq by exactly 1,
\* expected_seq changes at no other time, and no inserted frame is returned
\* twice.
C1_InOrderRelease ==
    /\ [](/\ expected_seq = Len(released)
          /\ \A i \in 1..Len(released) :
                /\ released[i].seq = i - 1
                /\ released[i].id \in 1..Len(delivered)
                /\ delivered[released[i].id].seq = released[i].seq
                /\ delivered[released[i].id].data = released[i].data
          /\ \A i, j \in 1..Len(released) :
                i # j => released[i].id # released[j].id)
    /\ [][IF ret' # None
          THEN /\ Len(released') = Len(released) + 1
               /\ released'[Len(released')].seq = expected_seq
               /\ released'[Len(released')].data = ret'[1]
               /\ expected_seq' = expected_seq + 1
          ELSE /\ expected_seq' = expected_seq
               /\ released' = released]_vars

\* C1 witness: two frames were released although delivery was out of order
\* and contained a duplicate sequence number.
C1_Witness ==
    /\ Len(released) >= 2
    /\ delivered[1].seq # 0
    /\ \E i, j \in 1..Len(delivered) : i < j /\ delivered[i].seq = delivered[j].seq

C3_FullyRepaired ==
    LET n == Len(delivered)
    IN (/\ n >= 1
        /\ n <= max_size
        /\ {delivered[i].seq : i \in 1..n} = 0..(n - 1))
       => /\ buffer = <<>>
          /\ SeqsOf(released) = [i \in 1..n |-> i - 1]

\* C4: the number of pending frames is at most the max_size the buffer was
\* constructed with.
C4_PendingAtMostMaxSize == get_buffer_size <= max_size

\* C5: with capacity 2 and inserts of sequences 5, 6, 7 the frame of
\* sequence 5 is evicted by the third insert, 6 and 7 are held, every call
\* returned None and expected_seq is still 0.
C5_FifoEviction ==
    (/\ max_size = 2
     /\ Len(delivered) = 3
     /\ SeqsOf(delivered) = <<5, 6, 7>>)
    => /\ \A e \in Range(buffer) : e.seq # 5
       /\ {e.seq : e \in Range(buffer)} = {6, 7}
       /\ \A i \in 1..3 : delivered[i].ret = None
       /\ expected_seq = 0

\* C6: an add_frame call whose sequence number is below expected_seq returns
\* None and leaves the pending frames and expected_seq as they were.
C6_LateFrameIgnored ==
    [][(IsAddFrameStep /\ NewFrame.seq < expected_seq) =>
          /\ ret' = None
          /\ buffer' = buffer
          /\ expected_seq' = expected_seq]_vars

\* C7: adding a frame whose sequence number is already pending leaves a
\* single pending entry for that number, carrying the later payload, and
\* does not grow the pending count.
C7_LastWriteWins ==
    [][(IsAddFrameStep /\ \E e \in Range(buffer) : e.seq = NewFrame.seq) =>
          /\ Cardinality({e \in Range(buffer') : e.seq = NewFrame.seq}) = 1
          /\ \A e \in Range(buffer') : e.seq = NewFrame.seq => e.data = NewFrame.data
          /\ Len(buffer') <= Len(buffer)]_vars

----------------------------------------------------------------------------
\* Properties of ConnectionManager (checked under SpecCM)

registry == <<active_sessions, connection_to_session, websocket_to_connection>>
IsCreateStep == cm_result'.op = "create"

\* C8: whatever the interleaving of create_session and remove_session calls,
\* the number of active sessions is at most max_connections.
C8_AtMostMaxConnections == get_active_session_count <= max_connections

\* C8 witness: a create_session call has just filled the last free slot of a
\* manager that admits more than one session.
C8_Witness ==
    /\ max_connections = MaxConn
    /\ get_active_session_count = max_connections
    /\ cm_result.op = "create"
    /\ cm_result.outcome = "ok"

\* C9: a create_session call made when the active count equals
\* max_connections fails and leaves the count and the three maps unchanged.
C9_CreateAtCapacityFails ==
    [][(IsCreateStep /\ get_active_session_count = max_connections) =>
          /\ cm_result'.outcome = "CapacityExceeded"
          /\ registry' = registry
          /\ get_active_session_count' = get_active_session_count]_vars

\* C9 witness: a create_session call has been refused for capacity while
\* the manager was full.
C9_Witness ==
    /\ cm_result.op = "create"
    /\ cm_result.outcome = "CapacityExceeded"
    /\ get_active_session_count = max_connections

\* C10: a create_session call naming an active session_id fails and changes
\* none of the three maps; the session registered under that id keeps its
\* record and every transport resolves to the same session as before.
C10_DuplicateCreateFails ==
    /\ [][(/\ IsCreateStep
           /\ cm_result'.session_id # None
           /\ cm_result'.session_id[1] \in DOMAIN active_sessions) =>
             /\ cm_result'.outcome \in {"DuplicateSession", "CapacityExceeded"}
             /\ registry' = registry
             /\ \A w \in Websockets :
                   get_session_by_websocket(w)' = get_session_by_websocket(w)]_vars
    /\ [](\A s \in DOMAIN active_sessions : active_sessions[s].session_id = s)

\* C10 witness: a second connection named the session_id of a live session,
\* was refused as a duplicate, and the first session is still registered and
\* resolved from its own transport.
C10_Witness ==
    /\ cm_result.op = "create"
    /\ cm_result.outcome = "DuplicateSession"
    /\ LET s == cm_result.session_id[1]
       IN /\ s \in DOMAIN active_sessions
          /\ active_sessions[s].websocket # cm_result.websocket
          /\ get_session_by_websocket(active_sessions[s].websocket)
                = Some(active_sessions[s])

IsRemoveStep == cm_result'.op = "remove"
\* a session is registered for the transport: the three entries exist
Registered(w) ==
    /\ w \in DOMAIN websocket_to_connection
    /\ websocket_to_connection[w] \in DOMAIN connection_to_session
    /\ connection_to_session[websocket_to_connection[w]] \in DOMAIN active_sessions

\* C11: the three maps are consistent: every active session has exactly one
\* connection_id entry mapping to its session_id and exactly one transport
\* entry mapping to that connection_id, and every connection_id entry and
\* transport entry refers to an active session.
C11_RegistryConsistent ==
    /\ \A s \in DOMAIN active_sessions :
          /\ Cardinality({c \in DOMAIN connection_to_session :
                             connection_to_session[c] = s}) = 1
          /\ \A c \in DOMAIN connection_to_session :
                connection_to_session[c] = s =>
                   Cardinality({w \in DOMAIN websocket_to_connection :
                                   websocket_to_connection[w] = c}) = 1
    /\ \A c \in DOMAIN connection_to_session :
          connection_to_session[c] \in DOMAIN active_sessions
    /\ \A w \in DOMAIN websocket_to_connection :
          websocket_to_connection[w] \in DOMAIN connection_to_session

\* C12: remove_session for a transport that resolves to no session returns
\* false and leaves the three maps and the active count unchanged; after a
\* removal that returned true the transport resolves to no session, so a
\* second removal is such a call.
C12_RemoveIdempotent ==
    /\ [][(IsRemoveStep /\ get_session_by_websocket(cm_result'.websocket) = None) =>
             /\ cm_result'.outcome = "false"
             /\ registry' = registry
             /\ get_active_session_count' = get_active_session_count]_vars
    /\ []((cm_result.op = "remove" /\ cm_result.outcome = "true") =>
             /\ get_session_by_websocket(cm_result.websocket) = None
             /\ cm_result.websocket \notin DOMAIN websocket_to_connection)

\* C12 witness: a session was removed while another one stayed registered,
\* so that a repeated removal has maps it could disturb.
C12_Witness ==
    /\ cm_result.op = "remove"
    /\ cm_result.outcome = "true"
    /\ get_active_session_count >= 1

\* C13: remove_session for a transport with a registered session (whatever
\* its identifiers, the empty string included) returns true, after which
\* the transport and the session_id resolve to nothing and the active count
\* is lower by one.
C13_RemoveRegistered ==
    [][\A w \in Websockets :
          (IsRemoveStep /\ cm_result'.websocket = w /\ Registered(w)) =>
             LET s == connection_to_session[websocket_to_connection[w]]
             IN /\ cm_result'.outcome = "true"
                /\ get_session_by_websocket(w)' = None
                /\ DictGet(active_sessions', s) = None
                /\ get_active_session_count' = get_active_session_count - 1]_vars

----------------------------------------------------------------------------
\* Properties of the connection handler (checked under SpecSvc)

NotInit(ev) == ~(ev.kind = "json_object" /\ ev.type = "init")
HasErrorReply(w) == \E i \in 1..Len(sent[w]) : sent[w][i].type = "error"
TasksOf(w) ==
    {s \in DOMAIN audio_processor_tasks : audio_processor_tasks[s] = w}
    \cup {s \in DOMAIN transcription_tasks : transcription_tasks[s] = w}
\* the handler of w runs its teardown in this step
TearsDown(w) == pc[w] \in {"init_ack", "active"} /\ pc'[w] = "closed"

\* C14: when the teardown of a connection whose init was accepted has run,
\* the active session count is back to what it was without that connection:
\* the teardown lowers it by one.
C14_TeardownRestoresCount ==
    [][\A w \in Websockets :
          (TearsDown(w) /\ handshake[w] = "accepted") =>
             get_active_session_count' = get_active_session_count - 1]_vars

\* C15: until an init message has been accepted there is no session for the
\* connection: when the first message is missing, not JSON, not an object or
\* not of type init, the maps, the active count and the task tables are
\* unchanged and nothing of the connection is registered.
C15_NoSessionBeforeInit ==
    /\ [](\A w \in Websockets :
            (first_event[w] = None \/ NotInit(first_event[w][1])) =>
               /\ client_session[w] = None
               /\ w \notin DOMAIN websocket_to_connection
               /\ \A s \in DOMAIN active_sessions : active_sessions[s].websocket # w
               /\ TasksOf(w) = {})
    /\ [][\A w \in Websockets :
            (first_event[w] = None /\ first_event'[w] # None
               /\ NotInit(first_event'[w][1])) =>
               /\ registry' = registry
               /\ get_active_session_count' = get_active_session_count
               /\ audio_processor_tasks' = audio_processor_tasks
               /\ transcription_tasks' = transcription_tasks]_vars

\* C15 witness: a connection was turned away for a first message that is
\* not init while another connection's session is live.
C15_Witness ==
    \E w, v \in Websockets :
       /\ w # v
       /\ pc[w] = "closed"
       /\ first_event[w] # None
       /\ first_event[w][1].kind = "json_object"
       /\ NotInit(first_event[w][1])
       /\ pc[v] = "active"
       /\ TasksOf(v) # {}

\* C16: when the handshake fails because the first message is not a
\* well-formed init message or none arrives in time, an error reply has been
\* sent to the client by the time the handler is done.
C16_HandshakeFailureReplies ==
    \A w \in Websockets :
       (/\ pc[w] = "closed"
        /\ first_event[w] # None
        /\ first_event[w][1].kind # "closed"
        /\ NotInit(first_event[w][1]))
       => HasErrorReply(w)

\* C17: a connection whose init is rejected at session creation (duplicate
\* session_id or connection ceiling) has been sent an error message by the
\* time the handler is done.
C17_RejectedInitReplies ==
    \A w \in Websockets :
       (pc[w] = "closed" /\ handshake[w] \in {"DuplicateSession", "CapacityExceeded"})
       => HasErrorReply(w)

----------------------------------------------------------------------------
\* Properties of the receive loop (checked under SpecLoop)

IsAck(m) == m.type = "ack"
IsBinary(m) == m.kind = "binary"
IsDisplayToggle(m) == m.kind = "text_object" /\ m.type \in {"start_display", "stop_display"}
IsToggleResponse(m) ==
    m.type = "control_response" /\ m.action \in {"start_display", "stop_display"}
\* the receive loop of w takes message m in this step
Takes(w, m) == received'[w] = Append(received[w], m)

\* C18: the k-th binary message of a connection (k from 0, control messages
\* not counted) gets sequence number k and an ack naming k is sent for it,
\* released and queued or not: the acks sent carry 0,1,2,... in order, one
\* per binary message taken.
C18_AcksNumberBinaryMessages ==
    \A w \in Websockets :
       LET acks == SelectSeq(sent[w], IsAck)
           bins == SelectSeq(received[w], IsBinary)
       IN /\ Len(acks) = Len(bins)
          /\ sequence_number[w] = Len(bins)
          /\ \A k \in 1..Len(acks) : acks[k].sequence = k - 1

\* C18 witness: two binary messages with a control message among the
\* messages taken, one of the frames not queued, both acknowledged.
C18_Witness ==
    \E w \in Websockets :
       /\ Len(SelectSeq(sent[w], IsAck)) = 2
       /\ Len(received[w]) = 3
       /\ received[w][2].kind = "text_object"
       /\ Len(client_session[w][1].audio_queue) = 1

RECURSIVE DisplayAfter(_, _)
\* the display flag after the messages msgs, starting from init
DisplayAfter(msgs, init) ==
    IF msgs = <<>> THEN init
    ELSE LET m == msgs[Len(msgs)]
         IN IF IsDisplayToggle(m) THEN m.type = "start_display"
            ELSE DisplayAfter(SubSeq(msgs, 1, Len(msgs) - 1), init)

\* C19: display_subtitles is true if the last start_display/stop_display
\* message was start_display, false if it was stop_display, and the value
\* set at init if there was none; each such message yields exactly one
\* control_response with status success naming the action and changes no
\* other field of the session.
C19_DisplayFollowsLastToggle ==
    /\ [](\A w \in Websockets :
            client_session[w] # None =>
               LET init == first_event[w][1].display_subtitles
                   toggles == SelectSeq(received[w], IsDisplayToggle)
                   replies == SelectSeq(sent[w], IsToggleResponse)
               IN /\ client_session[w][1].display_subtitles =
                        DisplayAfter(received[w], IF init = None THEN TRUE ELSE init[1])
                  /\ Len(replies) = Len(toggles)
                  /\ \A k \in 1..Len(replies) :
                        /\ replies[k].action = toggles[k].type
                        /\ replies[k].status = "success")
    /\ [][\A w \in Websockets : \A m \in Messages :
            (Takes(w, m) /\ IsDisplayToggle(m)) =>
               /\ client_session'[w] =
                     Some([client_session[w][1] EXCEPT
                              !.display_subtitles = (m.type = "start_display")])
               /\ sequence_number'[w] = sequence_number[w]]_vars

\* C19 witness: the flag was switched on and off again after an init that
\* left it at its default.
C19_Witness ==
    \E w \in Websockets :
       /\ Len(received[w]) >= 2
       /\ first_event[w][1].display_subtitles = None
       /\ received[w][Len(received[w]) - 1].type = "start_display"
       /\ received[w][Len(received[w])].type = "stop_display"
       /\ ~client_session[w][1].display_subtitles

\* C20: an enable_translation message carrying enabled and target_lang sets
\* enable_translation to enabled and translate_to to target_lang and changes
\* nothing else of the session; the control_response sent for it reports
\* translation_enabled equal to the resulting enable_translation.
C20_EnableTranslation ==
    [][\A w \in Websockets : \A m \in Messages :
          (/\ Takes(w, m)
           /\ m.kind = "text_object" /\ m.type = "enable_translation"
           /\ m.enabled # None /\ m.target_lang # None) =>
             LET reply == sent'[w][Len(sent[w]) + 1]
             IN /\ client_session'[w] =
                      Some([client_session[w][1] EXCEPT
                               !.enable_translation = m.enabled[1],
                               !.translate_to = m.target_lang])
                /\ Len(sent'[w]) > Len(sent[w])
                /\ reply.type = "control_response"
                /\ reply.action = "enable_translation"
                /\ reply.translation_enabled = m.enabled[1]
                /\ reply.translation_enabled = client_session'[w][1].enable_translation]_vars

\* C20 witness: translation was enabled towards "fr" on a session that was
\* initialised without a translation target, and the reply says so.
C20_Witness ==
    \E w \in Websockets :
       /\ client_session[w] # None
       /\ first_event[w][1].translate_to = None
       /\ client_session[w][1].enable_translation
       /\ client_session[w][1].translate_to = Some("fr")
       /\ \E i \in 1..Len(sent[w]) :
             /\ sent[w][i].type = "control_response"
             /\ sent[w][i].action = "enable_translation"
             /\ sent[w][i].translation_enabled

ControlTypes == {"start_display", "stop_display", "enable_translation", "ping"}
IsUnrecognized(m) == m.kind = "text_object" /\ m.type \notin ControlTypes
IsMalformed(m) == m.kind \in {"text_nonobject", "text_not_json"}

\* C21: a control message (a JSON object) whose type is none of
\* start_display, stop_display, enable_translation, ping is ignored: taking
\* it sends nothing, changes no field of the session (jitter buffer and
\* queue included) nor the sequence counter, and leaves the session
\* registered and the handler in its receive loop.
C21_UnrecognizedIgnored ==
    [][\A w \in Websockets : \A m \in Messages :
          (Takes(w, m) /\ IsUnrecognized(m)) =>
             /\ sent' = sent
             /\ client_session' = client_session
             /\ sequence_number' = sequence_number
             /\ registry' = registry
             /\ pc'[w] = "active"
             /\ audio_processor_tasks' = audio_processor_tasks
             /\ transcription_tasks' = transcription_tasks]_vars

\* C21 witness: a message of unknown type was taken first, nothing but the
\* init_response had been sent, and the binary message after it was
\* acknowledged with sequence 0.
C21_Witness ==
    \E w \in Websockets :
       /\ Len(received[w]) = 2
       /\ IsUnrecognized(received[w][1])
       /\ IsBinary(received[w][2])
       /\ Len(sent[w]) = 2
       /\ sent[w][1].type = "init_response"
       /\ sent[w][2].type = "ack" /\ sent[w][2].sequence = 0
       /\ pc[w] = "active"

\* C22: a text message the handler cannot parse (not JSON, or JSON that is
\* not an object) ends the receive loop: it is the last message the
\* connection's receive loop takes, and once its error frame is sent the
\* handler is no longer in the loop.
C22_MalformedEndsSession ==
    \A w \in Websockets : \A i \in 1..Len(received[w]) :
       IsMalformed(received[w][i]) => (i = Len(received[w]) /\ pc[w] # "active")

----------------------------------------------------------------------------
\* Properties of the teardown (checked under SpecSvc)

\* C23: a handler that created a session runs _cleanup_session exactly once,
\* when it ends, by whichever path it ends (the init_response cannot be
\* sent, the receive loop ends on a close or on a transport fault); until
\* then, and in handlers that never created a session, it has not run. Once
\* it has run, the handler's tasks have had cancel() called and are filed
\* in neither task table.
C23_TeardownExactlyOnce ==
    \A w \in Websockets :
       /\ cleanups[w] = IF pc[w] = "closed" /\ client_session[w] # None THEN 1 ELSE 0
       /\ (pc[w] = "closed" /\ client_session[w] # None) =>
             /\ TasksOf(w) = {}
             /\ audio_pc[w] # "none" => <<"audio", w>> \in cancelled
             /\ stats_pc[w] # "none" => <<"stats", w>> \in cancelled

\* C23 witness: one handler ended because its init_response could not be
\* sent, the other after its receive loop had taken a message and its tasks
\* were running; each ran the teardown once.
C23_Witness ==
    \E w, v \in Websockets :
       /\ pc[w] = "closed" /\ client_session[w] # None /\ audio_pc[w] = "none"
       /\ ~transport_ok[w]
       /\ pc[v] = "closed" /\ client_session[v] # None /\ audio_pc[v] = "done"
       /\ Len(received[v]) > 0
       /\ cleanups[w] = 1 /\ cleanups[v] = 1

----------------------------------------------------------------------------
\* Properties of the background tasks (checked under SpecPipe)

\* C24: once the teardown has called cancel() on a session's audio task or
\* stats task, that task never runs another iteration of its loop.
C24_NoIterationAfterTeardown == late_iteration = {}

----------------------------------------------------------------------------
\* Properties of the audio queue (checked under SpecQueue)

StrictlyIncreasing(s) == \A i \in 1..(Len(s) - 1) : s[i] < s[i + 1]
\* the receive loop of w takes a non-empty frame while the queue is full
DropsFrame(w, m) ==
    /\ Takes(w, m)
    /\ IsBinary(m) /\ m.len > 0
    /\ Len(client_session[w][1].audio_queue) >= QueueMaxSize

\* C25: the audio queue never holds more than 1000 entries; a frame that the
\* jitter buffer releases while the queue is full is dropped: the queue is
\* unchanged, the handler stays in its receive loop with the sequence number
\* advanced, the ack for the frame is sent and, on a working transport,
\* nothing else is.
C25_QueueBoundedDropNewest ==
    /\ [](\A w \in Websockets :
            client_session[w] # None =>
               Len(client_session[w][1].audio_queue) <= QueueMaxSize)
    /\ [][\A w \in Websockets : \A m \in Messages :
            DropsFrame(w, m) =>
               /\ client_session'[w][1].audio_queue = client_session[w][1].audio_queue
               /\ client_session'[w][1].jitter_buffer.expected_seq =
                     client_session[w][1].jitter_buffer.expected_seq + 1
               /\ sequence_number'[w] = sequence_number[w] + 1
               /\ pc'[w] = "active"
               /\ Len(sent'[w]) > Len(sent[w])
               /\ sent'[w][Len(sent[w]) + 1].type = "ack"
               /\ sent'[w][Len(sent[w]) + 1].sequence = sequence_number[w]
               /\ transport_ok[w] => Len(sent'[w]) = Len(sent[w]) + 1]_vars

\* C25 witness: the queue is full and the frame taken last, acknowledged on
\* a working transport, is not in it although earlier frames still are.
C25_Witness ==
    \E w \in Websockets :
       /\ client_session[w] # None
       /\ Len(client_session[w][1].audio_queue) = QueueMaxSize
       /\ received[w] # <<>>
       /\ received[w][Len(received[w])].len > 0
       /\ client_session[w][1].audio_queue[QueueMaxSize].seq < sequence_number[w] - 1
       /\ sent[w][Len(sent[w])].type = "ack"
       /\ sent[w][Len(sent[w])].sequence = sequence_number[w] - 1
       /\ sent[w][Len(sent[w])].ok

\* C26: the frames the audio task has taken from the queue, followed by
\* those still queued, carry strictly increasing sequence numbers: the task
\* takes the frames in increasing order and none twice, whatever was
\* dropped in between.
C26_TakenInOrder ==
    \A w \in Websockets :
       client_session[w] # None =>
          StrictlyIncreasing(SeqsOf(taken[w]) \o SeqsOf(client_session[w][1].audio_queue))

\* C26 witness: the audio task has taken two frames while the receive loop
\* had a frame dropped and a later one queued behind the gap.
C26_Witness ==
    \E w \in Websockets :
       LET q == client_session[w][1].audio_queue
       IN /\ client_session[w] # None
          /\ Len(taken[w]) >= 2
          /\ Len(q) >= 2
          /\ q[Len(q)].seq > q[Len(q) - 1].seq + 1
          /\ q[Len(q)].data > 0

----------------------------------------------------------------------------
\* Properties of batching and transcription (checked under SpecPipe)

RECURSIVE Flatten(_)
\* the frames of the dispatched batches, in dispatch order
Flatten(calls) == IF calls = <<>> THEN <<>> ELSE calls[1].batch \o Flatten(Tail(calls))
IsPrefix(s, t) == Len(s) <= Len(t) /\ s = SubSeq(t, 1, Len(s))
Awaiting(w) == audio_pc[w] \in {"transcription", "translation"}
\* the audio task of w starts a loop iteration in this step
Iterates(w) ==
    /\ audio_pc[w] = "sleep"
    /\ \/ taken'[w] # taken[w]
       \/ <<"audio", w>> \in late_iteration' \ late_iteration
\* the collaborator call of w's audio task ends in this step with the outcome
Ends(w, outcome) ==
    /\ Awaiting(w)
    /\ Len(dispatched'[w]) = Len(dispatched[w])
    /\ dispatched'[w][Len(dispatched[w])].outcome = outcome

\* C27: every batch handed to the collaborator holds at least 8192 bytes,
\* and the audio task starts every loop iteration with fewer than 8192
\* bytes in its accumulation buffer.
C27_DispatchAtThreshold ==
    /\ [](\A w \in Websockets : \A i \in 1..Len(dispatched[w]) :
            Bytes(dispatched[w][i].batch) >= BatchThreshold)
    /\ [][\A w \in Websockets :
            Iterates(w) => Bytes(audio_buffer[w]) < BatchThreshold]_vars

\* C28: the dispatched batches, concatenated in order, are a prefix of the
\* frames taken from the queue (nothing dispatched is lost, repeated or
\* reordered); while a call is pending everything taken so far is in the
\* batches, and between calls the batches followed by the accumulation
\* buffer are exactly the frames taken.
C28_BatchingConservesBytes ==
    \A w \in Websockets :
       LET all == Flatten(dispatched[w])
       IN /\ IsPrefix(all, taken[w])
          /\ Awaiting(w) => all = taken[w]
          /\ (audio_pc[w] = "sleep" /\ <<"audio", w>> \notin cancelled) =>
                all \o audio_buffer[w] = taken[w]

\* C29: when the collaborator call fails, the session registry, the task
\* tables and every handler stay as they are, the audio task goes on (it is
\* back at its sleep with an empty accumulation buffer), one error message
\* naming the session is sent to that session's client and nothing to any
\* other; the batch dispatched after a failed one shares no frame with it.
C29_CollaboratorFailureIsScoped ==
    /\ [][\A w \in Websockets :
            Ends(w, "fail") =>
               /\ registry' = registry
               /\ pc' = pc
               /\ audio_processor_tasks' = audio_processor_tasks
               /\ transcription_tasks' = transcription_tasks
               /\ audio_pc'[w] = "sleep"
               /\ audio_buffer'[w] = <<>>
               /\ Len(sent'[w]) = Len(sent[w]) + 1
               /\ SubSeq(sent'[w], 1, Len(sent[w])) = sent[w]
               /\ sent'[w][Len(sent'[w])].type = "error"
               /\ sent'[w][Len(sent'[w])].session_id = client_session[w][1].session_id
               /\ \A v \in Websockets \ {w} : sent'[v] = sent[v]]_vars
    /\ [](\A w \in Websockets : \A i \in 1..(Len(dispatched[w]) - 1) :
            dispatched[w][i].outcome = "fail" =>
               Range(dispatched[w][i].batch) \cap Range(dispatched[w][i + 1].batch) = {})

\* C29 witness: a call failed, the session is still live, and the next
\* batch went out and was transcribed and pushed to the client after the
\* error message.
C29_Witness ==
    \E w \in Websockets :
       /\ pc[w] = "active"
       /\ Len(dispatched[w]) = 2
       /\ dispatched[w][1].outcome = "fail"
       /\ dispatched[w][2].outcome = "text"
       /\ client_session[w][1].session_id \in DOMAIN active_sessions
       /\ \E i, j \in 1..Len(sent[w]) :
             i < j /\ sent[w][i].type = "error" /\ sent[w][j].type = "transcription"

\* C30: a transcription message is sent to a client only in a step at
\* whose start (and end) the session's display_subtitles is true.
C30_PushOnlyWhenDisplayed ==
    [][\A w \in Websockets : \A i \in (Len(sent[w]) + 1)..Len(sent'[w]) :
          sent'[w][i].type = "transcription" =>
             /\ client_session[w][1].display_subtitles
             /\ client_session'[w][1].display_subtitles]_vars

\* C30 witness: a batch was dispatched while display was on, stop_display
\* was taken while the call was in flight, and the text that came back was
\* not pushed.
C30_Witness ==
    \E w \in Websockets :
       /\ Len(dispatched[w]) = 1
       /\ dispatched[w][1].display
       /\ dispatched[w][1].outcome = "text"
       /\ ~client_session[w][1].display_subtitles
       /\ \A j \in 1..Len(sent[w]) : sent[w][j].type # "transcription"

----------------------------------------------------------------------------
\* Properties of concurrent sessions (checked under SpecPipe)

Live(v) == pc[v] \in {"init_ack", "active"}
\* this step is a message taken on w, a collaborator result for w's audio
\* task or the teardown of w
ActsOn(w) ==
    \/ received'[w] # received[w]
    \/ \E outcome \in Outcomes : Ends(w, outcome)
    \/ TearsDown(w)

\* C31: a message taken on one connection, a collaborator result for it and
\* its teardown leave every other live session as it is (configuration,
\* statistics, jitter buffer, queue), leave that session's sequence counter
\* alone and send nothing on its transport.
C31_SessionsIsolated ==
    [][\A w \in Websockets : \A v \in Websockets \ {w} :
          (ActsOn(w) /\ Live(v)) =>
             /\ client_session'[v] = client_session[v]
             /\ sequence_number'[v] = sequence_number[v]
             /\ sent'[v] = sent[v]
             /\ Live(v)']_vars

\* C31 witness: two sessions are live; one took an audio frame and a
\* display toggle and was sent a transcription, the other has seen nothing
\* since its init_response.
C31_Witness ==
    \E w \in Websockets : \E v \in Websockets \ {w} :
       /\ pc[w] = "active" /\ pc[v] = "active"
       /\ Len(received[w]) = 2
       /\ \E i \in 1..Len(sent[w]) : sent[w][i].type = "transcription"
       /\ ~client_session[w][1].display_subtitles
       /\ received[v] = <<>>
       /\ Len(sent[v]) = 1
       /\ client_session[v][1].display_subtitles
       /\ sequence_number[v] = 0

\* C32: the teardown asks for the cancellation of the session's audio task
\* and stats task before it removes the session from the ConnectionManager,
\* and all of it happens in one step of the handler: no task takes a frame,
\* dispatches, sends or iterates in between.
C32_CancelBeforeRemove ==
    /\ [](\A w \in Websockets :
            teardown_log[w] \in
               {<<>>, <<"remove_session">>,
                <<"cancel_audio", "cancel_stats", "remove_session">>})
    /\ [][\A w \in Websockets :
            TearsDown(w) =>
               /\ audio_pc[w] # "none" =>
                     /\ teardown_log'[w] =
                           <<"cancel_audio", "cancel_stats", "remove_session">>
                     /\ {<<"audio", w>>, <<"stats", w>>} \subseteq cancelled'
               /\ cm_result'.op = "remove" /\ cm_result'.websocket = w
               /\ taken' = taken
               /\ dispatched' = dispatched
               /\ audio_buffer' = audio_buffer
               /\ late_iteration' = late_iteration
               /\ sent' = sent
               /\ client_session' = client_session]_vars

\* C32 witness: a session whose audio task had a call pending was torn down.
C32_Witness ==
    \E w \in Websockets :
       /\ teardown_log[w] = <<"cancel_audio", "cancel_stats", "remove_session">>
       /\ Len(dispatched[w]) = 1
       /\ dispatched[w][1].outcome = "pending"
       /\ client_session[w][1].session_id \notin DOMAIN active_sessions

----------------------------------------------------------------------------
\* Further properties of JitterBuffer (checked under SpecJB)

----------------------------------------------------------------------------
\* Further properties of the connection handler (checked under SpecSvc)

IsInit(ev) == ev.kind = "json_object" /\ ev.type = "init"
\* the handler of w gets ev as its first message in this step
FirstIs(w, ev) == first_event[w] = None /\ first_event'[w] = Some(ev)

\* C33: when a session has been torn down and no connection is being
\* served, a new connection whose init names the same session_id is
\* accepted, and its session starts afresh: empty jitter buffer expecting
\* sequence 0, empty queue, zero statistics, sequence counter 0.
C33_ReconnectStartsAfresh ==
    [][\A w \in Websockets : \A v \in Websockets \ {w} : \A ev \in InitMessages :
          (/\ cleanups[w] = 1
           /\ \A u \in Websockets : ~Live(u)
           /\ FirstIs(v, ev)
           /\ ev.session_id = Some(client_session[w][1].session_id)) =>
             /\ handshake'[v] = "accepted"
             /\ client_session'[v] # None
             /\ client_session'[v][1].jitter_buffer.buffer = <<>>
             /\ client_session'[v][1].jitter_buffer.expected_seq = 0
             /\ client_session'[v][1].audio_queue = <<>>
             /\ client_session'[v][1].bytes_received = 0
             /\ client_session'[v][1].frames_processed = 0
             /\ sequence_number'[v] = 0]_vars

\* C39: an init that names a registered session_id, or arrives when the
\* number of sessions is at the ceiling, is rejected and touches nothing:
\* the registry and the task tables are unchanged, no task is cancelled, no
\* teardown runs and the handler ends without a session.
C39_RejectedInitTouchesNothing ==
    [][\A w \in Websockets : \A ev \in InitMessages :
          (/\ FirstIs(w, ev)
           /\ \/ Cardinality(DOMAIN active_sessions) >= max_connections
              \/ ev.session_id # None /\ ev.session_id[1] \in DOMAIN active_sessions) =>
             /\ handshake'[w] \in {"CapacityExceeded", "DuplicateSession"}
             /\ registry' = registry
             /\ audio_processor_tasks' = audio_processor_tasks
             /\ transcription_tasks' = transcription_tasks
             /\ cancelled' = cancelled
             /\ audio_pc' = audio_pc /\ stats_pc' = stats_pc
             /\ cleanups' = cleanups
             /\ client_session' = client_session
             /\ pc'[w] = "closed"]_vars

\* C39 witness: a connection was turned away as a duplicate of a session
\* that is still served, with its tasks filed and not cancelled.
C39_Witness ==
    \E w \in Websockets : \E v \in Websockets \ {w} :
       /\ pc[w] = "closed" /\ handshake[w] = "DuplicateSession"
       /\ cleanups[w] = 0
       /\ pc[v] = "active"
       /\ first_event[w][1].session_id = Some(client_session[v][1].session_id)
       /\ TasksOf(v) # {}
       /\ cancelled = {}

----------------------------------------------------------------------------
\* Further properties of the receive loop (checked under SpecLoop)

\* C40: a binary message of length 0 is counted in frames_processed, takes
\* a sequence number, advances the jitter buffer's expected_seq and is
\* acknowledged under its sequence number, and the audio queue stays as it
\* was.
C40_EmptyFrameNotQueued ==
    [][\A w \in Websockets : \A m \in Messages :
          (Takes(w, m) /\ IsBinary(m) /\ m.len = 0) =>
             /\ client_session'[w][1].frames_processed =
                   client_session[w][1].frames_processed + 1
             /\ client_session'[w][1].bytes_received = client_session[w][1].bytes_received
             /\ sequence_number'[w] = sequence_number[w] + 1
             /\ client_session'[w][1].jitter_buffer.expected_seq =
                   client_session[w][1].jitter_buffer.expected_seq + 1
             /\ client_session'[w][1].jitter_buffer.buffer = <<>>
             /\ client_session'[w][1].audio_queue = client_session[w][1].audio_queue
             /\ Len(sent'[w]) > Len(sent[w])
             /\ sent'[w][Len(sent[w]) + 1].type = "ack"
             /\ sent'[w][Len(sent[w]) + 1].sequence = sequence_number[w]]_vars

\* C40 witness: an empty frame between two frames of 4096 bytes: three
\* acks, three frames counted, two entries queued, numbered 0 and 2.
C40_Witness ==
    \E w \in Websockets :
       /\ Len(received[w]) = 3
       /\ received[w][2].kind = "binary" /\ received[w][2].len = 0
       /\ client_session[w][1].frames_processed = 3
       /\ Len(SelectSeq(sent[w], IsAck)) = 3
       /\ SeqsOf(client_session[w][1].audio_queue) = <<0, 2>>

----------------------------------------------------------------------------
\* Properties of the programmatic interface (checked under SpecCallbacks and
\* SpecApi)

Positions(callbacks) == [i \in 1..Len(callbacks) |-> i]
IsStateDispatch(c) == c.op \in {"_change_state", "stop"}

\* C34: a dispatch calls every registered callback once, in registration
\* order, whether or not an earlier one raises, and no callback's exception
\* reaches the caller; state-change callbacks are called when the state
\* changes and not when _change_state is given the current state.
\* (Transcription callbacks are dispatched when display_subtitles is on.)
C34_CallbacksIsolated ==
    [][/\ state' # state =>
             /\ IsStateDispatch(call')
             /\ call'.invoked = Positions(state_change_callbacks)
             /\ call'.raised # Some("Exception")
             /\ call'.op = "_change_state" => call'.raised = None
       /\ (call' # call /\ IsStateDispatch(call') /\ state' = state) =>
             /\ call'.invoked = <<>>
             /\ call'.raised # Some("Exception")
       /\ (call' # call /\ call'.op = "_trigger_error") =>
             /\ call'.invoked = Positions(error_callbacks)
             /\ call'.raised = None
       /\ (call' # call /\ call'.op = "_trigger_transcription"
             /\ display_subtitles = Some(TRUE)) =>
             /\ call'.invoked = Positions(transcription_callbacks)
             /\ call'.raised = None]_vars

\* C34 witness: the state changed to starting with a raising callback
\* registered before a returning one, and both were called.
C34_Witness ==
    /\ call.op = "_change_state" /\ call.arg = "starting"
    /\ state_change_callbacks = <<"raises", "returns">>
    /\ call.invoked = <<1, 2>>
    /\ call.raised = None
    /\ error_callbacks = <<"raises">>

\* C35: after stop() the state is STOPPED, the call has returned and the
\* server is not listening (so no connection is accepted).
C35_StopClosesServer ==
    call.op = "stop" =>
       /\ state = "stopped"
       /\ call.raised = None
       /\ ws_server # Some("server")

\* C36: handle_request returns (never raises); status_code is 200 with the
\* status in the result for a complete request of the service's version
\* whose action is get_status or start_transcription, and 400 with an empty
\* result for every other request.
C36_RequestStatus ==
    call.op = "handle_request" =>
       /\ call.raised = None
       /\ IF /\ call.request.complete
             /\ call.request.version = Version
             /\ call.request.action \in {"get_status", "start_transcription"}
          THEN call.status_code = 200 /\ call.result = "status"
          ELSE call.status_code = 400 /\ call.result = "empty"

====
